---------------------------- MODULE Spec2Model ----------------------------
(***************************************************************************)
(* Model of robotoff/ingredients.py: the offset-preserving normalisation   *)
(* of an ingredient text, its segmentation into slots, the reconciliation  *)
(* of the backend's suggestions into term corrections and the rebuilding   *)
(* of the corrected text.                                                  *)
(*                                                                         *)
(* A Python str is a sequence of one-character strings.  Two characters    *)
(* outside ASCII are written by name: "e_acute" (U+00E9) and "bullet"      *)
(* (U+2022).  Offsets are Python's: 0-based, half-open.                    *)
(***************************************************************************)
EXTENDS Integers, Sequences, FiniteSets, TLC

VARIABLES
    pc,                \* position in the operation being run
    ingredient_text,   \* the raw text (process_ingredients' argument)
    normalized,        \* normalize_ingredients' / process_ingredients' local
    offsets,           \* Ingredients.offsets
    response,          \* the msearch response of _suggest_batch
    suggestions,       \* _suggest_batch's return value
    idx,               \* generate_corrections' loop index
    corrections,       \* generate_corrections' list of Correction
    original_tokens,   \* format_corrections' first argument
    suggestion_tokens, \* format_corrections' second argument
    offset,            \* format_corrections' third argument
    term_corrections,  \* a list of TermCorrection
    corrected          \* generate_corrected_text's return value

vars == <<pc, ingredient_text, normalized, offsets, response, suggestions, idx,
          corrections, original_tokens, suggestion_tokens, offset,
          term_corrections, corrected>>

----------------------------------------------------------------------------
(* Bounds of the model *)

\* longest input text of the normalisation and segmentation runs
MaxTextLen == 5

\* longest input text of the runs of the masking loop that are followed to
\* their end (apart from the examples)
MaxFairLen == 3

\* longest input text of the whole-pipeline runs (apart from the example)
MaxBatchLen == 4

\* longest original or suggestion text handed to the tokenizer in the
\* format_corrections runs
MaxFormatLen == 4

\* longest text and longest list of corrections of the rebuilding runs
MaxRebuildLen == 4

MaxRebuildCorrections == 3

----------------------------------------------------------------------------
(* Python str helpers *)

Min(a, b) == IF a < b THEN a ELSE b

\* s[a:b] for 0 <= a, 0 <= b
Slice(s, a, b) == SubSeq(s, a + 1, Min(b, Len(s)))

\* s[i]
At(s, i) == s[i + 1]

\* ' ' * n
Spaces(n) == [k \in 1..n |-> " "]

\* all strings over alphabet of length at most n
StringsUpTo(alphabet, n) == UNION {[1..k -> alphabet] : k \in 0..n}

LowerLetters == <<"a", "b", "d", "e", "f", "i", "l", "n", "r", "s", "x", "y", "e_acute">>

UpperLetters == <<"A", "B", "D", "E", "F", "I", "L", "N", "R", "S", "X", "Y", "E_ACUTE">>

Range(f) == {f[k] : k \in DOMAIN f}

IndexOf(f, c) == CHOOSE k \in DOMAIN f : f[k] = c

IsLowerChar(c) == c \in Range(LowerLetters)

IsUpperChar(c) == c \in Range(UpperLetters)

\* c.lower() and c.upper() of one character
LowerChar(c) == IF IsUpperChar(c) THEN LowerLetters[IndexOf(UpperLetters, c)] ELSE c

UpperChar(c) == IF IsLowerChar(c) THEN UpperLetters[IndexOf(LowerLetters, c)] ELSE c

----------------------------------------------------------------------------
(* BLACKLIST_RE and normalize_ingredients *)

SPLITTER_CHAR == {"(", ")", ",", ";", "[", "]", "-", "{", "}"}

\* \d
Digits == {"0", "1", "2", "3", "4", "5", "6", "7", "8", "9"}

IsDigit(c) == c \in Digits

\* \s
Whitespace == {" "}

\* [a-z]
AsciiLower == Range(LowerLetters) \ {"e_acute"}

\* the bounds of \d{3,5}
MinAdditiveDigits == 3

MaxAdditiveDigits == 5

\* end of the longest run of characters satisfying Class that starts at i
\* (a greedy repetition: i itself when s[i] is not in the class)
RunEnd(s, i, class) ==
    CHOOSE j \in i..Len(s) :
        /\ \A k \in i..(j - 1) : At(s, k) \in class
        /\ j = Len(s) \/ At(s, j) \notin class

\* a pattern without its percentage alternative
MatchPercentNever(s, i) == -1

\* (?:\d+(?:[,.]\d+)?\s*%) tried at i: the end of the match, or -1.
\* Every repetition is followed by a character outside its class, so
\* backtracking to a shorter repetition never yields a match.
MatchPercent(s, i) ==
    IF ~IsDigit(At(s, i)) THEN -1
    ELSE LET d1 == RunEnd(s, i, Digits)
             d2 == IF /\ d1 + 1 < Len(s)
                      /\ At(s, d1) \in {",", "."}
                      /\ IsDigit(At(s, d1 + 1))
                   THEN RunEnd(s, d1 + 1, Digits)
                   ELSE d1
             w  == RunEnd(s, d2, Whitespace)
         IN  IF w < Len(s) /\ At(s, w) = "%" THEN w + 1 ELSE -1

\* (?:E ?\d{3,5}[a-z]*) tried at i: the end of the match, or -1
MatchAdditive(s, i) ==
    IF At(s, i) # "E" THEN -1
    ELSE LET j == IF i + 1 < Len(s) /\ At(s, i + 1) = " " THEN i + 2 ELSE i + 1
             n == RunEnd(s, j, Digits) - j
         IN  IF n < MinAdditiveDigits THEN -1
             ELSE RunEnd(s, j + Min(n, MaxAdditiveDigits), AsciiLower)

\* (?:[_•:0-9]) tried at i
MatchSingle(s, i) ==
    IF At(s, i) \in {"_", "bullet", ":"} \/ IsDigit(At(s, i)) THEN i + 1 ELSE -1

\* the alternation tried at i, first alternative first
MatchAt(s, i) ==
    IF MatchPercent(s, i) # -1 THEN MatchPercent(s, i)
    ELSE IF MatchAdditive(s, i) # -1 THEN MatchAdditive(s, i)
    ELSE MatchSingle(s, i)

HasMatch(s) == \E i \in 0..(Len(s) - 1) : MatchAt(s, i) # -1

\* next(BLACKLIST_RE.finditer(s)): <<match.start(), match.end()>> of the
\* leftmost match
FirstMatch(s) ==
    LET i == CHOOSE i \in 0..(Len(s) - 1) :
                 /\ MatchAt(s, i) # -1
                 /\ \A k \in 0..(i - 1) : MatchAt(s, k) = -1
    IN  <<i, MatchAt(s, i)>>

\* a masking that forgets the width of the match
MaskCollapsed(s, start, end) == Slice(s, 0, start) \o <<" ">> \o Slice(s, end, Len(s))

\* a masking by a placeholder that the pattern matches again
MaskUnderscore(s, start, end) ==
    Slice(s, 0, start) \o [k \in 1..(end - start) |-> "_"] \o Slice(s, end, Len(s))

\* normalized[:start] + ' ' * (end - start) + normalized[end:]
Mask(s, start, end) == Slice(s, 0, start) \o Spaces(end - start) \o Slice(s, end, Len(s))

----------------------------------------------------------------------------
(* process_ingredients *)

\* a slot that starts on the separator that closed the previous one
SlotStartOnSeparator(i) == i

\* start_idx = idx + 1
NextSlotStart(i) == i + 1

\* the loop over enumerate(normalized) from index i on, and the trailing slot
RECURSIVE SegmentFrom(_, _, _, _)
SegmentFrom(s, i, start_idx, acc) ==
    IF i = Len(s)
    THEN IF start_idx # Len(s) THEN Append(acc, <<start_idx, Len(s)>>) ELSE acc
    ELSE IF At(s, i) \in SPLITTER_CHAR
         THEN SegmentFrom(s, i + 1, NextSlotStart(i), Append(acc, <<start_idx, i>>))
         ELSE SegmentFrom(s, i + 1, start_idx, acc)

\* ''.join(chars): every separator replaced by one space
BlankSeparators(s) == [k \in 1..Len(s) |-> IF s[k] \in SPLITTER_CHAR THEN " " ELSE s[k]]

\* Ingredients.get_normalized_ingredient(index), index 0-based
get_normalized_ingredient(norm, offs, index) ==
    Slice(norm, offs[index + 1][1], offs[index + 1][2])

----------------------------------------------------------------------------
(* analyze: the tokenizer service.  The standard tokenizer is modelled as   *)
(* splitting the text at every character that is neither a letter nor a    *)
(* digit; a token carries its surface and its offsets in the analysed text. *)

WordChars == Range(LowerLetters) \cup Range(UpperLetters) \cup Digits

RECURSIVE TokensFrom(_, _)
TokensFrom(s, i) ==
    IF i >= Len(s) THEN <<>>
    ELSE IF At(s, i) \notin WordChars THEN TokensFrom(s, i + 1)
    ELSE LET j == RunEnd(s, i, WordChars)
         IN  <<[token |-> Slice(s, i, j), start_offset |-> i, end_offset |-> j]>>
             \o TokensFrom(s, j)

\* r['tokens'] of client.indices.analyze
analyze(ingredient_text_) == TokensFrom(ingredient_text_, 0)

----------------------------------------------------------------------------
(* format_corrections *)

IsCased(c) == IsLowerChar(c) \/ IsUpperChar(c)

\* str.lower, str.upper
lower(s) == [k \in 1..Len(s) |-> LowerChar(s[k])]

upper(s) == [k \in 1..Len(s) |-> UpperChar(s[k])]

\* str.isupper: at least one cased character, none of them lowercase
isupper(s) ==
    /\ \E k \in 1..Len(s) : IsCased(s[k])
    /\ \A k \in 1..Len(s) : ~IsLowerChar(s[k])

\* str.istitle: uppercase characters follow only uncased ones, lowercase
\* characters only cased ones, and there is at least one cased character
istitle(s) ==
    /\ \E k \in 1..Len(s) : IsCased(s[k])
    /\ \A k \in 1..Len(s) :
           LET previous_is_cased == k > 1 /\ IsCased(s[k - 1])
           IN  /\ IsUpperChar(s[k]) => ~previous_is_cased
               /\ IsLowerChar(s[k]) => previous_is_cased

\* str.capitalize: the first character uppercased, the rest lowercased
capitalize(s) == [k \in 1..Len(s) |-> IF k = 1 THEN UpperChar(s[k]) ELSE LowerChar(s[k])]

\* original_token_str.lower() != suggestion_token_str
Differs(original_token_str, suggestion_token_str) ==
    lower(original_token_str) # suggestion_token_str

\* a replacement that ignores the casing of the original
token_str_verbatim(original_token_str, suggestion_token_str) == suggestion_token_str

\* the replacement text, cased after the original token
token_str(original_token_str, suggestion_token_str) ==
    IF isupper(original_token_str) THEN upper(suggestion_token_str)
    ELSE IF istitle(original_token_str) THEN capitalize(suggestion_token_str)
    ELSE suggestion_token_str

\* a length check that never fires
NoLengthMismatch(original_tokens_, suggestion_tokens_) == FALSE

\* len(original_tokens) != len(suggestion_tokens)
LengthMismatch(original_tokens_, suggestion_tokens_) ==
    Len(original_tokens_) # Len(suggestion_tokens_)

\* offsets left in the coordinates of the analysed slot
TokenLocalOffset(offset_, token_offset) == token_offset

\* offset + token_start, offset + token_end
ShiftedOffset(offset_, token_offset) == offset_ + token_offset

\* a TermCorrection whose original is taken from the suggestion
TermCorrectionOfSuggestion(original_token, suggestion_token, offset_) ==
    [original     |-> suggestion_token.token,
     correction   |-> token_str(original_token.token, suggestion_token.token),
     start_offset |-> ShiftedOffset(offset_, original_token.start_offset),
     end_offset   |-> ShiftedOffset(offset_, original_token.end_offset)]

\* the TermCorrection built for one pair of tokens
TermCorrection(original_token, suggestion_token, offset_) ==
    [original     |-> original_token.token,
     correction   |-> token_str(original_token.token, suggestion_token.token),
     start_offset |-> ShiftedOffset(offset_, original_token.start_offset),
     end_offset   |-> ShiftedOffset(offset_, original_token.end_offset)]

\* the loop over zip(original_tokens, suggestion_tokens) from pair k on
RECURSIVE FormatFrom(_, _, _, _)
FormatFrom(original_tokens_, suggestion_tokens_, offset_, k) ==
    IF k > Min(Len(original_tokens_), Len(suggestion_tokens_)) THEN <<>>
    ELSE (IF Differs(original_tokens_[k].token, suggestion_tokens_[k].token)
          THEN <<TermCorrection(original_tokens_[k], suggestion_tokens_[k], offset_)>>
          ELSE <<>>)
         \o FormatFrom(original_tokens_, suggestion_tokens_, offset_, k + 1)

\* format_corrections: raised is TRUE when TokenLengthMismatchException is
\* raised (nothing is returned then), else value is the list returned
format_corrections(original_tokens_, suggestion_tokens_, offset_) ==
    IF LengthMismatch(original_tokens_, suggestion_tokens_)
    THEN [raised |-> TRUE, value |-> <<>>]
    ELSE [raised |-> FALSE,
          value  |-> FormatFrom(original_tokens_, suggestion_tokens_, offset_, 1)]

----------------------------------------------------------------------------
(* generate_corrected_text *)

\* sorted(..., key=start_offset) is stable: c goes after every element whose
\* key is not greater
InsertByStart(sorted, c) ==
    LET n == Cardinality({k \in 1..Len(sorted) : sorted[k].start_offset <= c.start_offset})
    IN  SubSeq(sorted, 1, n) \o <<c>> \o SubSeq(sorted, n + 1, Len(sorted))

RECURSIVE sorted_corrections(_)
sorted_corrections(cs) ==
    IF cs = <<>> THEN <<>>
    ELSE InsertByStart(sorted_corrections(SubSeq(cs, 1, Len(cs) - 1)), cs[Len(cs)])

\* the fragments appended by the loop for sorted corrections k..Len(sc)
RECURSIVE FragmentsFrom(_, _, _)
FragmentsFrom(sc, text, k) ==
    IF k > Len(sc) THEN <<>>
    ELSE (IF k = 1
          THEN Slice(text, 0, sc[k].start_offset)
          ELSE Slice(text, sc[k - 1].end_offset, sc[k].start_offset))
         \o sc[k].correction
         \o FragmentsFrom(sc, text, k + 1)

\* ''.join(corrected_fragments): the text after the last correction is
\* appended only when there is a last correction
generate_corrected_text(cs, text) ==
    LET sc == sorted_corrections(cs)
    IN  FragmentsFrom(sc, text, 1)
        \o (IF sc # <<>> THEN Slice(text, sc[Len(sc)].end_offset, Len(text)) ELSE <<>>)

----------------------------------------------------------------------------
(* _suggest_batch *)

\* r['status'] of a successful item
StatusOK == 200

\* the suggestions appended for the items i.. of response['responses']: an
\* item whose status is not 200 is skipped (continue), nothing is appended
\* in its place
RECURSIVE SuggestionsFrom(_, _)
SuggestionsFrom(responses, i) ==
    IF i > Len(responses) THEN <<>>
    ELSE IF responses[i].status # StatusOK THEN SuggestionsFrom(responses, i + 1)
    ELSE <<[options |-> responses[i].options]>> \o SuggestionsFrom(responses, i + 1)

\* _suggest_batch on the msearch response: on the first item whose status is
\* not 200 it reads response['error'], a key of the whole response, which
\* raises KeyError when the response carries no such key
suggest_batch(resp) ==
    IF (\E i \in 1..Len(resp.responses) : resp.responses[i].status # StatusOK) /\ ~resp.has_error
    THEN [raised |-> TRUE, value |-> <<>>]
    ELSE [raised |-> FALSE, value |-> SuggestionsFrom(resp.responses, 1)]

----------------------------------------------------------------------------
(* Inputs *)

\* "Farine de blé (12%), sel, E330"
ExampleText ==
    <<"F", "a", "r", "i", "n", "e", " ", "d", "e", " ", "b", "l", "e_acute", " ",
      "(", "1", "2", "%", ")", ",", " ", "s", "e", "l", ",", " ", "E", "3", "3", "0">>

Sel == <<"s", "e", "l">>

ProcessAlphabet == {"a", "E", "1", "%", " ", ","}

\* "E:123456%": a colon between an E and digits that end in a percentage
ColonText == <<"E", ":", "1", "2", "3", "4", "5", "6", "%">>

ProcessTexts == StringsUpTo(ProcessAlphabet, MaxTextLen) \cup {ExampleText, ColonText}

FairTexts == StringsUpTo(ProcessAlphabet, MaxFairLen) \cup {ExampleText, ColonText}

BatchAlphabet == {"a", "E", "1", " ", ","}

BatchTexts == StringsUpTo(BatchAlphabet, MaxBatchLen) \cup {ExampleText}

\* option['text'] of a suggestion
SuggestionTexts == {<<"a">>, Sel, <<"a", " ", "a">>}

\* option['score']
Scores == {1}

\* one item of response['responses']: a failed item (status 500), an item
\* without options, an item with one option
ResponseItems ==
    {[status |-> 500, options |-> <<>>], [status |-> StatusOK, options |-> <<>>]}
    \cup {[status |-> StatusOK, options |-> <<[text |-> t, score |-> sc]>>] :
              t \in SuggestionTexts, sc \in Scores}

FormatAlphabet == {"a", "A", " "}

FormatTexts == StringsUpTo(FormatAlphabet, MaxFormatLen)

FormatOffsets == {0, 2}

RebuildString == <<"a", "b", "d", "e", "f", "i", "l", "n">>

RebuildTexts == {SubSeq(RebuildString, 1, n) : n \in 0..MaxRebuildLen}

RebuildReplacements == {<<>>, <<"x">>, <<"x", "y">>}

\* the TermCorrections over a text: a non-empty span and a replacement
TermCorrectionsOver(text) ==
    {[original |-> Slice(text, s, e), correction |-> r, start_offset |-> s, end_offset |-> e] :
        s \in 0..(Len(text) - 1), e \in 1..Len(text), r \in RebuildReplacements}

SpansOK(text) == {c \in TermCorrectionsOver(text) : c.start_offset < c.end_offset}

NoResponse == [has_error |-> FALSE, responses |-> <<>>]

----------------------------------------------------------------------------
(* Initial states *)

Idle ==
    /\ offsets = <<>>
    /\ response = NoResponse
    /\ suggestions = <<>>
    /\ idx = 0
    /\ corrections = <<>>
    /\ original_tokens = <<>>
    /\ suggestion_tokens = <<>>
    /\ offset = 0
    /\ term_corrections = <<>>
    /\ corrected = <<>>

\* generate_insights on one product whose ingredients_text_fr is the text
Init ==
    /\ pc = "normalize"
    /\ ingredient_text \in BatchTexts
    /\ normalized = ingredient_text
    /\ Idle

\* process_ingredients on a text
InitProcess ==
    /\ pc = "normalize"
    /\ ingredient_text \in ProcessTexts
    /\ normalized = ingredient_text
    /\ Idle

\* process_ingredients on a text, for the runs that are followed to their end
InitProcessFair ==
    /\ pc = "normalize"
    /\ ingredient_text \in FairTexts
    /\ normalized = ingredient_text
    /\ Idle

\* format_corrections on the tokens of two texts
InitFormat ==
    /\ pc = "format"
    /\ ingredient_text = <<>>
    /\ normalized = <<>>
    /\ offsets = <<>>
    /\ response = NoResponse
    /\ suggestions = <<>>
    /\ idx = 0
    /\ corrections = <<>>
    /\ \E o \in FormatTexts : original_tokens = analyze(o)
    /\ \E t \in FormatTexts : suggestion_tokens = analyze(t)
    /\ offset \in FormatOffsets
    /\ term_corrections = <<>>
    /\ corrected = <<>>

\* generate_corrected_text on a text and a list of corrections in any order
InitRebuild ==
    /\ pc = "rebuild"
    /\ ingredient_text \in RebuildTexts
    /\ normalized = <<>>
    /\ offsets = <<>>
    /\ response = NoResponse
    /\ suggestions = <<>>
    /\ idx = 0
    /\ corrections = <<>>
    /\ original_tokens = <<>>
    /\ suggestion_tokens = <<>>
    /\ offset = 0
    /\ \E n \in 0..MaxRebuildCorrections :
           term_corrections \in [1..n -> SpansOK(ingredient_text)]
    /\ corrected = <<>>

----------------------------------------------------------------------------
(* Actions *)

\* one iteration of normalize_ingredients' loop that finds a match
MaskStep ==
    /\ pc = "normalize"
    /\ HasMatch(normalized)
    /\ normalized' = Mask(normalized, FirstMatch(normalized)[1], FirstMatch(normalized)[2])
    /\ UNCHANGED <<pc, ingredient_text, offsets, response, suggestions, idx, corrections,
                   original_tokens, suggestion_tokens, offset, term_corrections, corrected>>

\* the iteration that finds none (StopIteration): return normalized
MaskExit ==
    /\ pc = "normalize"
    /\ ~HasMatch(normalized)
    /\ pc' = "segment"
    /\ UNCHANGED <<ingredient_text, normalized, offsets, response, suggestions, idx,
                   corrections, original_tokens, suggestion_tokens, offset,
                   term_corrections, corrected>>

\* the rest of process_ingredients: the slots and the blanked separators
Segment ==
    /\ pc = "segment"
    /\ offsets' = SegmentFrom(normalized, 0, 0, <<>>)
    /\ normalized' = BlankSeparators(normalized)
    /\ pc' = "processed"
    /\ UNCHANGED <<ingredient_text, response, suggestions, idx, corrections,
                   original_tokens, suggestion_tokens, offset, term_corrections, corrected>>

\* _suggest_batch: one msearch for all the slots, answered item by item in
\* input order; the backend chooses each item's outcome
SuggestBatch ==
    /\ pc = "processed"
    /\ \E has_error \in BOOLEAN, responses \in [1..Len(offsets) -> ResponseItems] :
           /\ has_error => \E i \in 1..Len(responses) : responses[i].status # StatusOK
           /\ response' = [has_error |-> has_error, responses |-> responses]
    /\ suggestions' = suggest_batch(response').value
    /\ pc' = IF suggest_batch(response').raised THEN "raised" ELSE "loop"
    /\ UNCHANGED <<ingredient_text, normalized, offsets, idx, corrections,
                   original_tokens, suggestion_tokens, offset, term_corrections, corrected>>

\* an iteration of generate_corrections' loop: not options, continue
LoopNoOptions ==
    /\ pc = "loop"
    /\ idx < Len(suggestions)
    /\ suggestions[idx + 1].options = <<>>
    /\ idx' = idx + 1
    /\ UNCHANGED <<pc, ingredient_text, normalized, offsets, response, suggestions,
                   corrections, original_tokens, suggestion_tokens, offset,
                   term_corrections, corrected>>

\* an iteration with an option: the two analyze calls and format_corrections,
\* whose exception is caught
LoopOption ==
    /\ pc = "loop"
    /\ idx < Len(suggestions)
    /\ suggestions[idx + 1].options # <<>>
    /\ LET option == suggestions[idx + 1].options[1]
           r == format_corrections(analyze(get_normalized_ingredient(normalized, offsets, idx)),
                                   analyze(option.text),
                                   offsets[idx + 1][1])
       IN  /\ original_tokens' = analyze(get_normalized_ingredient(normalized, offsets, idx))
           /\ suggestion_tokens' = analyze(option.text)
           /\ offset' = offsets[idx + 1][1]
           /\ IF r.raised
              THEN UNCHANGED <<corrections, term_corrections>>
              ELSE /\ term_corrections' = r.value
                   /\ corrections' = Append(corrections,
                                            [term_corrections |-> r.value, score |-> option.score])
    /\ idx' = idx + 1
    /\ UNCHANGED <<pc, ingredient_text, normalized, offsets, response, suggestions, corrected>>

\* the loop is exhausted: return corrections
LoopExit ==
    /\ pc = "loop"
    /\ idx = Len(suggestions)
    /\ pc' = "returned"
    /\ UNCHANGED <<ingredient_text, normalized, offsets, response, suggestions, idx,
                   corrections, original_tokens, suggestion_tokens, offset,
                   term_corrections, corrected>>

\* itertools.chain.from_iterable(c.term_corrections for c in corrections)
RECURSIVE Chain(_)
Chain(cs) == IF cs = <<>> THEN <<>> ELSE cs[1].term_corrections \o Chain(Tail(cs))

\* generate_insights after generate_corrections returned: no corrections, continue
InsightSkip ==
    /\ pc = "returned"
    /\ corrections = <<>>
    /\ pc' = "skipped"
    /\ UNCHANGED <<ingredient_text, normalized, offsets, response, suggestions, idx,
                   corrections, original_tokens, suggestion_tokens, offset,
                   term_corrections, corrected>>

\* generate_insights: the record yielded for the product
InsightYield ==
    /\ pc = "returned"
    /\ corrections # <<>>
    /\ term_corrections' = Chain(corrections)
    /\ corrected' = generate_corrected_text(Chain(corrections), ingredient_text)
    /\ pc' = "yielded"
    /\ UNCHANGED <<ingredient_text, normalized, offsets, response, suggestions, idx,
                   corrections, original_tokens, suggestion_tokens, offset>>

\* format_corrections called on its own: it raises
FormatRaise ==
    /\ pc = "format"
    /\ format_corrections(original_tokens, suggestion_tokens, offset).raised
    /\ pc' = "format_raised"
    /\ UNCHANGED <<ingredient_text, normalized, offsets, response, suggestions, idx,
                   corrections, original_tokens, suggestion_tokens, offset,
                   term_corrections, corrected>>

\* format_corrections called on its own: it returns
FormatReturn ==
    /\ pc = "format"
    /\ ~format_corrections(original_tokens, suggestion_tokens, offset).raised
    /\ term_corrections' = format_corrections(original_tokens, suggestion_tokens, offset).value
    /\ pc' = "formatted"
    /\ UNCHANGED <<ingredient_text, normalized, offsets, response, suggestions, idx,
                   corrections, original_tokens, suggestion_tokens, offset, corrected>>

\* generate_corrected_text called on its own
Rebuild ==
    /\ pc = "rebuild"
    /\ corrected' = generate_corrected_text(term_corrections, ingredient_text)
    /\ pc' = "rebuilt"
    /\ UNCHANGED <<ingredient_text, normalized, offsets, response, suggestions, idx,
                   corrections, original_tokens, suggestion_tokens, offset, term_corrections>>

----------------------------------------------------------------------------
(* Specifications *)

NextProcess == MaskStep \/ MaskExit \/ Segment

Next ==
    \/ MaskStep \/ MaskExit \/ Segment
    \/ SuggestBatch
    \/ LoopNoOptions \/ LoopOption \/ LoopExit
    \/ InsightSkip \/ InsightYield

NextFormat == FormatRaise \/ FormatReturn

NextRebuild == Rebuild

\* generate_insights for one product: process_ingredients, _suggest_batch,
\* generate_corrections' loop, generate_corrected_text
Spec == Init /\ [][Next]_vars

\* process_ingredients on its own
SpecProcess == InitProcess /\ [][NextProcess]_vars

\* process_ingredients on its own, which keeps running until it returns
SpecProcessFair == InitProcessFair /\ [][NextProcess]_vars /\ WF_vars(NextProcess)

\* format_corrections on its own
SpecFormat == InitFormat /\ [][NextFormat]_vars

\* generate_corrected_text on its own
SpecRebuild == InitRebuild /\ [][NextRebuild]_vars

----------------------------------------------------------------------------
(* Properties of generate_corrected_text (under SpecRebuild) *)

\* C1: generate_corrected_text called with an empty list of corrections
\* returns the input text unchanged, for every text.
C1_IdentityOnNoCorrections ==
    (pc = "rebuilt" /\ term_corrections = <<>>) => corrected = ingredient_text

\* no two corrections of the list share a character of the text
NonOverlapping(cs) ==
    \A i, j \in 1..Len(cs) :
        i # j => \/ cs[i].end_offset <= cs[j].start_offset
                 \/ cs[j].end_offset <= cs[i].start_offset

\* the text read from position p on, each corrected span replaced by its
\* correction and every other character copied
RECURSIVE WalkFrom(_, _, _)
WalkFrom(cs, text, p) ==
    IF p >= Len(text) THEN <<>>
    ELSE IF \E k \in 1..Len(cs) : cs[k].start_offset = p
         THEN LET k == CHOOSE k \in 1..Len(cs) : cs[k].start_offset = p
              IN  cs[k].correction \o WalkFrom(cs, text, cs[k].end_offset)
         ELSE <<At(text, p)>> \o WalkFrom(cs, text, p + 1)

\* C7: for any list of pairwise non-overlapping corrections, in any order,
\* generate_corrected_text returns the text walked in ascending start_offset
\* order, the text between corrections copied and each span replaced by its
\* correction; for a single correction c the result is
\* t[:s] + c.correction + t[e:].
C7_RebuildWalksCorrections ==
    (pc = "rebuilt" /\ NonOverlapping(term_corrections)) =>
        /\ corrected = WalkFrom(term_corrections, ingredient_text, 0)
        /\ Len(term_corrections) = 1 =>
               corrected = Slice(ingredient_text, 0, term_corrections[1].start_offset)
                           \o term_corrections[1].correction
                           \o Slice(ingredient_text, term_corrections[1].end_offset,
                                    Len(ingredient_text))

\* the same for the lists that hold at least one correction
RebuildWalksNonEmpty ==
    term_corrections # <<>> => C7_RebuildWalksCorrections

\* two corrections given in descending order were rebuilt
RebuildUnsortedReached ==
    /\ pc = "rebuilt"
    /\ Len(term_corrections) = 2
    /\ NonOverlapping(term_corrections)
    /\ term_corrections[1].start_offset > term_corrections[2].start_offset

----------------------------------------------------------------------------
(* Properties of format_corrections (under SpecFormat) *)

\* the token pairs whose surfaces differ once the original is lowercased,
\* character by character
DivergentPairs ==
    {k \in 1..Len(original_tokens) :
        LET o == original_tokens[k].token
            s == suggestion_tokens[k].token
        IN  Len(o) # Len(s) \/ \E i \in 1..Len(o) : LowerChar(o[i]) # s[i]}

\* the j-th divergent pair, in token order
NthDivergent(j) ==
    CHOOSE k \in DivergentPairs : Cardinality({m \in DivergentPairs : m < k}) = j - 1

\* the original has an uppercase letter and no lowercase letter
AllUppercase(o) ==
    /\ \E i \in 1..Len(o) : IsUpperChar(o[i])
    /\ \A i \in 1..Len(o) : ~IsLowerChar(o[i])

\* the original starts with an uppercase letter and goes on in lowercase
TitleCase(o) ==
    /\ IsUpperChar(o[1])
    /\ \A i \in 2..Len(o) : IsLowerChar(o[i])

\* e is s with its first letter capitalized and nothing else changed
OnlyFirstCapitalized(e, s) ==
    /\ Len(e) = Len(s)
    /\ \A i \in 1..Len(s) : e[i] = IF i = 1 THEN UpperChar(s[i]) ELSE s[i]

\* e is s with its first letter capitalized and the others lowercased
FirstCapitalizedRestLowered(e, s) ==
    /\ Len(e) = Len(s)
    /\ \A i \in 1..Len(s) : e[i] = IF i = 1 THEN UpperChar(s[i]) ELSE LowerChar(s[i])

FullyUppercased(e, s) ==
    /\ Len(e) = Len(s)
    /\ \A i \in 1..Len(s) : e[i] = UpperChar(s[i])

\* the corrections returned are those of the divergent pairs, in order, each
\* replacing its original token by the suggestion cased after the original;
\* TitleCased(e, s) is the casing applied after a title-case original
CasedCorrections(TitleCased(_, _)) ==
    /\ Len(term_corrections) = Cardinality(DivergentPairs)
    /\ \A j \in 1..Len(term_corrections) :
           LET k == NthDivergent(j)
               o == original_tokens[k].token
               s == suggestion_tokens[k].token
               e == term_corrections[j].correction
           IN  /\ term_corrections[j].original = o
               /\ IF AllUppercase(o) THEN FullyUppercased(e, s)
                  ELSE IF TitleCase(o) THEN TitleCased(e, s)
                  ELSE e = s

\* C8 (as stated): for equal-length token lists, format_corrections emits a
\* correction for index i exactly when the lowercased original surface
\* differs from the suggestion surface, and the replacement is the
\* suggestion fully uppercased when the original is all-uppercase, with only
\* its first letter capitalized when the original is title-case, and
\* verbatim otherwise.
C8_CasingOnlyFirstCapitalized ==
    pc = "formatted" => CasedCorrections(OnlyFirstCapitalized)

\* C8 (amended): as above, but after a title-case original the replacement
\* is the suggestion with its first letter capitalized and its other letters
\* lowercased (str.capitalize); it is the suggestion with only its first
\* letter capitalized whenever the suggestion is lowercase after its first
\* letter.
C8_CasingCapitalize ==
    pc = "formatted" => CasedCorrections(FirstCapitalizedRestLowered)

\* a title-case original was replaced by a suggestion that carries an
\* uppercase letter after its first one
C8_TitleCaseCorrected ==
    /\ pc = "formatted"
    /\ \E j \in 1..Len(term_corrections) :
           /\ TitleCase(term_corrections[j].original)
           /\ ~AllUppercase(term_corrections[j].original)
           /\ \E i \in 2..Len(suggestion_tokens[NthDivergent(j)].token) :
                  IsUpperChar(suggestion_tokens[NthDivergent(j)].token[i])

----------------------------------------------------------------------------
(* Properties of process_ingredients (under SpecProcess) *)

\* C3 (as stated): every slot (start, end) produced by process_ingredients
\* satisfies 0 <= start < end <= len(text), and consecutive slots satisfy
\* end_i <= start_{i+1}, for every input text.
C3_SlotsNonEmptyOrdered ==
    pc = "processed" =>
        /\ \A i \in 1..Len(offsets) :
               /\ 0 <= offsets[i][1]
               /\ offsets[i][1] < offsets[i][2]
               /\ offsets[i][2] <= Len(ingredient_text)
        /\ \A i \in 1..(Len(offsets) - 1) : offsets[i][2] <= offsets[i + 1][1]

\* C3 (amended): every slot satisfies 0 <= start <= end <= len(text), a
\* slot being empty (start = end) where a separator opens the text or
\* follows another separator; consecutive slots satisfy
\* end_i <= start_{i+1} and start_i < start_{i+1}.
C3_SlotsOrdered ==
    pc = "processed" =>
        /\ \A i \in 1..Len(offsets) :
               /\ 0 <= offsets[i][1]
               /\ offsets[i][1] <= offsets[i][2]
               /\ offsets[i][2] <= Len(ingredient_text)
               /\ offsets[i][1] = offsets[i][2] =>
                      /\ offsets[i][2] < Len(ingredient_text)
                      /\ At(ingredient_text, offsets[i][2]) \in SPLITTER_CHAR
                      /\ \/ offsets[i][1] = 0
                         \/ At(ingredient_text, offsets[i][1] - 1) \in SPLITTER_CHAR
        /\ \A i \in 1..(Len(offsets) - 1) :
               /\ offsets[i][2] <= offsets[i + 1][1]
               /\ offsets[i][1] < offsets[i + 1][1]

\* a text that begins with a separator and holds two adjacent separators
\* was segmented, two of its slots being empty
C3_EmptySlotsReached ==
    /\ pc = "processed"
    /\ Len(ingredient_text) >= 3
    /\ At(ingredient_text, 0) \in SPLITTER_CHAR
    /\ At(ingredient_text, 1) \in SPLITTER_CHAR
    /\ Len(offsets) >= 3
    /\ offsets[1] = <<0, 0>>
    /\ offsets[2] = <<1, 1>>

\* C6: normalize_ingredients(t) has the same length as t, and so has the
\* normalized string stored by process_ingredients after the separators are
\* blanked; both passes only substitute characters in place (by a space).
C6_LengthPreserved ==
    /\ Len(normalized) = Len(ingredient_text)
    /\ \A k \in 1..Min(Len(normalized), Len(ingredient_text)) :
           normalized[k] # ingredient_text[k] => normalized[k] = " "

\* a text with a percentage at least two characters wide and a separator
\* went through both passes
C6_MaskedAndBlankedReached ==
    /\ pc = "processed"
    /\ \E k \in 1..(Len(ingredient_text) - 1) :
           /\ IsDigit(ingredient_text[k])
           /\ ingredient_text[k + 1] = "%"
           /\ normalized[k] = " "
           /\ normalized[k + 1] = " "
    /\ \E k \in 1..Len(ingredient_text) :
           /\ ingredient_text[k] \in SPLITTER_CHAR
           /\ normalized[k] = " "
           /\ \E i \in 1..Len(offsets) : offsets[i][2] = k - 1

----------------------------------------------------------------------------
(* Properties of generate_corrections (under Spec) *)

Returned == pc \in {"returned", "skipped", "yielded"}

\* the slot's own normalized text
SlotText(i) == get_normalized_ingredient(normalized, offsets, i - 1)

\* slot i's own response carries a suggestion whose tokens are as many as
\* the slot's
SlotReconciles(i) ==
    /\ response.responses[i].status = StatusOK
    /\ response.responses[i].options # <<>>
    /\ Len(analyze(SlotText(i))) = Len(analyze(response.responses[i].options[1].text))

\* the Correction derived from slot i's own suggestion, with offsets
\* computed from slot i's start offset
OwnCorrection(i) ==
    [term_corrections |->
         format_corrections(analyze(SlotText(i)),
                            analyze(response.responses[i].options[1].text),
                            offsets[i][1]).value,
     score |-> response.responses[i].options[1].score]

\* the corrections of the slots i.. that reconcile, in input order
RECURSIVE OwnCorrectionsFrom(_)
OwnCorrectionsFrom(i) ==
    IF i > Len(offsets) THEN <<>>
    ELSE (IF SlotReconciles(i) THEN <<OwnCorrection(i)>> ELSE <<>>)
         \o OwnCorrectionsFrom(i + 1)

SomeItemFailed ==
    \E i \in 1..Len(response.responses) : response.responses[i].status # StatusOK

\* C2: when the backend response for one slot of the batch has a non-success
\* status, generate_corrections does not raise, treats only that slot as
\* having no suggestion, and still returns for every other slot the
\* corrections derived from that slot's own suggestion, with offsets computed
\* from that same slot's start offset.
C2_PartialFailureIsolated ==
    /\ pc # "raised"
    /\ (Returned /\ SomeItemFailed) => corrections = OwnCorrectionsFrom(1)

\* the second half of C2 alone: what is returned when nothing is raised
FailedItemKeepsPairing ==
    (Returned /\ SomeItemFailed) => corrections = OwnCorrectionsFrom(1)

\* without a failed item the corrections are those of the slots' own
\* suggestions
NoFailureKeepsPairing ==
    (Returned /\ ~SomeItemFailed) => corrections = OwnCorrectionsFrom(1)

\* C4: every Correction in the list returned by generate_corrections
\* contains at least one TermCorrection.
C4_NoEmptyCorrection ==
    \A k \in 1..Len(corrections) : corrections[k].term_corrections # <<>>

\* the iteration about to run has an option whose tokens are not as many as
\* the slot's
MismatchAhead ==
    /\ pc = "loop"
    /\ idx < Len(suggestions)
    /\ suggestions[idx + 1].options # <<>>
    /\ Len(analyze(get_normalized_ingredient(normalized, offsets, idx)))
           # Len(analyze(suggestions[idx + 1].options[1].text))

\* C5: format_corrections signals a token-count mismatch and emits no
\* corrections whenever the two token lists differ in length;
\* generate_corrections catches it, appends nothing for that slot, never
\* propagates it, and still processes the remaining slots: the iteration
\* leaves corrections as they were and moves on to the next suggestion, and
\* the loop is left only when every suggestion has been processed.
C5_MismatchSkipped ==
    [][/\ MismatchAhead => (corrections' = corrections /\ pc' = "loop" /\ idx' = idx + 1)
       /\ (pc = "loop" /\ pc' # "loop") => (pc' = "returned" /\ idx = Len(suggestions))]_vars

\* generate_corrections returned after skipping a mismatching suggestion
\* and appending a later one
C5_MismatchSkippedReached ==
    /\ pc = "returned"
    /\ \E k \in 1..Len(suggestions) :
           /\ suggestions[k].options # <<>>
           /\ Len(analyze(SlotText(k))) # Len(analyze(suggestions[k].options[1].text))
           /\ \E m \in (k + 1)..Len(suggestions) :
                  /\ suggestions[m].options # <<>>
                  /\ Len(analyze(SlotText(m))) = Len(analyze(suggestions[m].options[1].text))
    /\ corrections # <<>>

\* C10: every TermCorrection emitted for a slot (s, e) has
\* start_offset = s + token.start and end_offset = s + token.end of the
\* original-slot token it replaces, so that s <= start_offset < end_offset <= e
\* in original-text coordinates.
C10_OffsetsInTextCoordinates ==
    [][Len(corrections') = Len(corrections) + 1 =>
          LET c    == corrections'[Len(corrections')]
              s    == offsets[idx + 1][1]
              e    == offsets[idx + 1][2]
              toks == analyze(Slice(normalized, s, e))
          IN  \A j \in 1..Len(c.term_corrections) :
                  LET tc == c.term_corrections[j]
                  IN  /\ \E t \in 1..Len(toks) :
                             /\ tc.original = toks[t].token
                             /\ tc.start_offset = s + toks[t].start_offset
                             /\ tc.end_offset = s + toks[t].end_offset
                      /\ s <= tc.start_offset
                      /\ tc.start_offset < tc.end_offset
                      /\ tc.end_offset <= e]_vars

\* a slot that does not start the text yielded a term correction for a token
\* that does not start the slot
C10_ShiftedCorrectionReached ==
    /\ pc = "loop"
    /\ idx > 0
    /\ offset > 0
    /\ offset = offsets[idx][1]
    /\ corrections # <<>>
    /\ corrections[Len(corrections)].term_corrections = term_corrections
    /\ \E j \in 1..Len(term_corrections) : term_corrections[j].start_offset > offset

----------------------------------------------------------------------------
(* The end-to-end example (under Spec) *)

\* the normalized text of each slot, in order
SlotTexts == [i \in 1..Len(offsets) |-> SlotText(i)]

\* process_ingredients has returned for the example
ExampleProcessed == ingredient_text = ExampleText /\ pc \notin {"normalize", "segment"}

\* "12%" (15..17) and "E330" (26..29) are masked
ExampleMasked ==
    \A k \in {15, 16, 17, 26, 27, 28, 29} : At(normalized, k) = " "

\* the iteration that just ran reconciled the suggestion "sel" with the
\* slot " sel"
SelJustReconciled ==
    /\ pc = "loop"
    /\ idx > 0
    /\ suggestions[idx].options # <<>>
    /\ suggestions[idx].options[1].text = Sel
    /\ SlotText(idx) = <<" ", "s", "e", "l">>

SelYieldsNoTermCorrection ==
    SelJustReconciled =>
        /\ term_corrections = <<>>
        /\ corrections # <<>>
        /\ corrections[Len(corrections)].term_corrections = <<>>

\* C9 (as stated): for "Farine de blé (12%), sel, E330", process_ingredients
\* masks "12%" and "E330" and produces exactly the four slots whose
\* substrings are "Farine de blé ", " ", " sel", " ", and a suggestion "sel"
\* for the slot " sel" yields no term correction for that slot.
C9_ExampleFourSlots ==
    ExampleProcessed =>
        /\ ExampleMasked
        /\ SlotTexts = << Slice(ExampleText, 0, 14), <<" ">>, <<" ", "s", "e", "l">>, <<" ">> >>
        /\ SelYieldsNoTermCorrection

\* C9 (amended): for that input process_ingredients masks "12%" and "E330"
\* by as many spaces and produces exactly the five slots (0, 14), (15, 18),
\* (19, 19), (20, 24), (25, 30), whose substrings are "Farine de blé ",
\* three spaces, the empty string, " sel" and five spaces; a suggestion
\* "sel" for the slot " sel" yields no term correction for that slot.
C9_ExampleFiveSlots ==
    ExampleProcessed =>
        /\ ExampleMasked
        /\ \A k \in 0..29 :
               k \notin {14, 15, 16, 17, 18, 19, 24, 26, 27, 28, 29} =>
                   At(normalized, k) = At(ExampleText, k)
        /\ offsets = << <<0, 14>>, <<15, 18>>, <<19, 19>>, <<20, 24>>, <<25, 30>> >>
        /\ SlotTexts = << Slice(ExampleText, 0, 14), Spaces(3), <<>>,
                          <<" ", "s", "e", "l">>, Spaces(5) >>
        /\ SelYieldsNoTermCorrection

\* the example's slot " sel" was reconciled with the suggestion "sel"
C9_ExampleSelReached ==
    /\ ingredient_text = ExampleText
    /\ SelJustReconciled
    /\ idx = 4
    /\ Len(suggestions) = 5

----------------------------------------------------------------------------
(* Termination of normalize_ingredients' loop (under SpecProcessFair) *)

\* the number of places of s where the pattern matches
MatchStarts(s) == Cardinality({i \in 0..(Len(s) - 1) : MatchAt(s, i) # -1})

\* the number of matches finditer yields from position p on: the leftmost
\* match, then the leftmost one after its end, and so on
RECURSIVE FinditerCountFrom(_, _)
FinditerCountFrom(s, p) ==
    IF \A i \in p..(Len(s) - 1) : MatchAt(s, i) = -1 THEN 0
    ELSE LET i == CHOOSE i \in p..(Len(s) - 1) :
                      /\ MatchAt(s, i) # -1
                      /\ \A k \in p..(i - 1) : MatchAt(s, k) = -1
         IN  1 + FinditerCountFrom(s, MatchAt(s, i))

\* the number of characters of s that are not a space
NonSpaceCount(s) == Cardinality({k \in 1..Len(s) : s[k] # " "})

\* an iteration of the loop that found a match
Masked == pc = "normalize" /\ pc' = "normalize" /\ normalized' # normalized

\* the iteration replaced by spaces one span, before which the pattern
\* matches nowhere and at whose start it matches
LeftmostMatchBlanked ==
    \E start \in 0..(Len(normalized) - 1), end \in 1..Len(normalized) :
        /\ start < end
        /\ MatchAt(normalized, start) = end
        /\ \A i \in 0..(start - 1) : MatchAt(normalized, i) = -1
        /\ Len(normalized') = Len(normalized)
        /\ \A k \in 0..(Len(normalized) - 1) :
               At(normalized', k) = IF start <= k /\ k < end THEN " " ELSE At(normalized, k)

\* no digit, underscore, bullet or colon is left, hence no percentage and
\* no additive code, which hold a digit
NothingBlacklisted(s) ==
    /\ \A k \in 1..Len(s) : s[k] \notin Digits \cup {"_", "bullet", ":"}
    /\ \A i \in 0..(Len(s) - 1) : MatchPercent(s, i) = -1 /\ MatchAdditive(s, i) = -1

\* C11 (as stated): each iteration of the masking loop replaces the leftmost
\* match with spaces, so that the number of matchable substrings strictly
\* decreases (counted as the places where the pattern matches, or as the
\* matches finditer yields); the loop terminates, and on exit the result
\* contains no percentage, additive code, digit, underscore, bullet or colon.
C11_MatchCountDecreases ==
    [][Masked =>
          /\ LeftmostMatchBlanked
          /\ \/ MatchStarts(normalized') < MatchStarts(normalized)
             \/ FinditerCountFrom(normalized', 0) < FinditerCountFrom(normalized, 0)]_vars

\* C11 (amended): the masking loop terminates for every input string: each
\* iteration replaces the leftmost match, which holds no space at its start,
\* with spaces, so the number of characters that are not a space strictly
\* decreases (the number of matches need not: a space may complete an
\* additive code); on exit the result contains no percentage, additive code,
\* digit, underscore, bullet or colon.
C11_MaskingTerminates ==
    /\ [][Masked =>
             /\ LeftmostMatchBlanked
             /\ NonSpaceCount(normalized') < NonSpaceCount(normalized)]_vars
    /\ [][(pc = "normalize" /\ pc' = "normalize") => normalized' # normalized]_vars
    /\ [](pc # "normalize" => NothingBlacklisted(normalized))
    /\ <>(pc # "normalize")

\* what C11 (amended) says of single steps and states, for the longer texts
\* of SpecProcess
MaskingProgresses ==
    /\ [][Masked =>
             /\ LeftmostMatchBlanked
             /\ NonSpaceCount(normalized') < NonSpaceCount(normalized)]_vars
    /\ [][(pc = "normalize" /\ pc' = "normalize") => normalized' # normalized]_vars
    /\ [](pc # "normalize" => NothingBlacklisted(normalized))

\* the loop returned after an iteration whose space completed an additive
\* code that a later iteration masked
C11_LoopExitedReached ==
    /\ pc = "segment"
    /\ ingredient_text = ColonText
    /\ normalized = Spaces(Len(ColonText))

----------------------------------------------------------------------------
(* The corrections against the original text (under Spec) *)

\* the tokens the tokenizer returns for the slots hold no whitespace, and
\* their surface is the analysed text between their offsets
TokensAreSubstrings ==
    \A i \in 1..Len(offsets) :
        LET toks == analyze(SlotText(i))
        IN  \A t \in 1..Len(toks) :
                /\ \A k \in 1..Len(toks[t].token) : toks[t].token[k] \notin Whitespace
                /\ toks[t].token = Slice(SlotText(i), toks[t].start_offset, toks[t].end_offset)

\* C12: for every TermCorrection returned by generate_corrections when no
\* batch item fails, the substring of the original unmodified text at
\* [start_offset, end_offset) equals the correction's original field, the
\* tokenizer returning whitespace-free tokens whose surface is the substring
\* of its input at the token's offsets.
C12_OriginalIsTextSubstring ==
    (~SomeItemFailed /\ TokensAreSubstrings) =>
        \A k \in 1..Len(corrections) :
            \A j \in 1..Len(corrections[k].term_corrections) :
                LET tc == corrections[k].term_corrections[j]
                IN  /\ 0 <= tc.start_offset
                    /\ tc.end_offset <= Len(ingredient_text)
                    /\ Slice(ingredient_text, tc.start_offset, tc.end_offset) = tc.original

\* generate_corrections returned, no item having failed, a term correction
\* for a token that directly follows a masked character
C12_AfterMaskReached ==
    /\ pc = "returned"
    /\ ~SomeItemFailed
    /\ TokensAreSubstrings
    /\ \E k \in 1..Len(corrections) :
           \E j \in 1..Len(corrections[k].term_corrections) :
               LET tc == corrections[k].term_corrections[j]
               IN  /\ tc.start_offset > 0
                   /\ At(normalized, tc.start_offset - 1) = " "
                   /\ IsDigit(At(ingredient_text, tc.start_offset - 1))

=============================================================================
